---- MODULE Spec2Model ----
(***************************************************************************)
(* Model of assets/universal-ajax-cart.js: the UniversalCartHandler that   *)
(* intercepts add-to-cart form submissions and quick-add clicks, posts the *)
(* item to the cart API, re-reads the cart count, patches the count        *)
(* displays and the header badge, refreshes the cart drawer and opens it.  *)
(*                                                                         *)
(* One action is one task of the browser's event loop: an event handler,   *)
(* or the continuation of an async function up to its next network wait    *)
(* (the microtasks that follow a settled promise run in the same task).    *)
(***************************************************************************)
EXTENDS Integers, Sequences, FiniteSets

\* ------------------------------------------------------------------ bounds

\* Pipelines started in one run of the pipeline model.
MaxPipes == 2
\* Pipelines started in one run of the page model (every page is drawn).
MaxPagePipes == 1
\* Pipelines started in one run of the model with fair scheduling.
MaxFairPipes == 1
\* User events in one run of the dispatch model (every form is drawn).
MaxDispatch == 1
\* Longest text of a form's quantity field.
MaxQtyLen == 2

\* --------------------------------------------------------- values and text

\* JavaScript null (an attribute or form field that is absent).
NULL == "<null>"

\* JavaScript truthiness of a string-or-null value.
Truthy(v) == v # NULL /\ v # ""

\* A JavaScript number: NaN, or an integer.
NaN == [nan |-> TRUE, val |-> 0]
Num(n) == [nan |-> FALSE, val |-> n]

DigitChars == <<"0", "1", "2", "3", "4", "5", "6", "7", "8", "9">>

IsDigit(c) == \E i \in 1..10 : DigitChars[i] = c

DigitVal(c) == (CHOOSE i \in 1..10 : DigitChars[i] = c) - 1

\* String(n) for a non-negative integer: its decimal digits, a sequence of
\* one-character strings.
RECURSIVE ToString(_)
ToString(n) ==
    IF n < 10 THEN <<DigitChars[n + 1]>>
    ELSE ToString(n \div 10) \o <<DigitChars[(n % 10) + 1]>>

RECURSIVE SkipSpaces(_)
SkipSpaces(s) ==
    IF s # <<>> /\ Head(s) = " " THEN SkipSpaces(Tail(s)) ELSE s

\* The longest prefix of s made of decimal digits.
RECURSIVE DigitPrefix(_)
DigitPrefix(s) ==
    IF s # <<>> /\ IsDigit(Head(s)) THEN <<Head(s)>> \o DigitPrefix(Tail(s))
    ELSE <<>>

RECURSIVE DigitsValue(_, _)
DigitsValue(s, acc) ==
    IF s = <<>> THEN acc ELSE DigitsValue(Tail(s), 10 * acc + DigitVal(Head(s)))

\* parseInt(text) with no radix, on text without a hexadecimal prefix:
\* leading white space is skipped, one sign is read, then the longest run
\* of digits; no digit at all gives NaN.
ParseIntText(s) ==
    LET t == SkipSpaces(s)
        signed == t # <<>> /\ Head(t) \in {"-", "+"}
        neg == t # <<>> /\ Head(t) = "-"
        d == DigitPrefix(IF signed THEN Tail(t) ELSE t)
    IN  IF d = <<>> THEN NaN
        ELSE Num(IF neg THEN 0 - DigitsValue(d, 0) ELSE DigitsValue(d, 0))

\* A value passed as addToCart's quantity: the number 1 (the default of
\* handleFormSubmit, the literal of handleQuickAdd) or a form field's text.
NumArg(n) == [isNum |-> TRUE, n |-> n, text |-> <<>>]
TextArg(s) == [isNum |-> FALSE, n |-> 0, text |-> s]

\* parseInt(quantity): a number is first converted to its text.
ParseInt(q) == IF q.isNum THEN ParseIntText(ToString(q.n)) ELSE ParseIntText(q.text)

\* JSON.stringify of a number: NaN is written as null.
JSONNumber(x) == [null |-> x.nan, val |-> IF x.nan THEN 0 ELSE x.val]

\* text.includes(sub) on sequences.
Includes(s, sub) ==
    \E i \in 0..(Len(s) - Len(sub)) : SubSeq(s, i + 1, i + Len(sub)) = sub

\* ------------------------------------------------------------------ inputs

\* An action URL is a sequence of path segments.
CartAddPath == <<"/cart", "/add">>

FormActions ==
    { <<"/cart", "/add">>, <<"/en", "/cart", "/add">>, <<"/add", "/cart">> }

VariantIds == {NULL, "", "v1"}

QtyChars == {"0", "2", "-", "a"}

RECURSIVE TextsUpTo(_)
TextsUpTo(n) ==
    IF n = 0 THEN {<<>>}
    ELSE LET shorter == TextsUpTo(n - 1)
         IN  shorter \cup {Append(s, c) : s \in shorter, c \in QtyChars}

\* A form field: absent, or present with a text.
Absent == [present |-> FALSE, text |-> <<>>]
Field(s) == [present |-> TRUE, text |-> s]

QtyFields == {Absent} \cup {Field(s) : s \in TextsUpTo(MaxQtyLen)}

\* Every form the dispatch model submits.
Forms == [action : FormActions, id : VariantIds, quantity : QtyFields]

\* The forms of the pipeline model: an add-to-cart form and a form that is
\* not one.
PipelineForms ==
    [action : {<<"/cart", "/add">>, <<"/search">>}, id : {"v1"},
     quantity : {Field(<<"1">>)}]

NoForm == [action |-> <<>>, id |-> NULL, quantity |-> Absent]

\* Where a click lands: outside every quick-add element, on the quick-add
\* element beside its button, or on its button.
ClickTargets == {"outside", "element", "button"}

\* The clicks of the pipeline model: those inside the quick-add element.
PipelineClicks == {"element", "button"}

\* The drawer fragments the render-section endpoint may return: one without
\* a cart-element, and one whose cart-element has the attributes b and c.
\* The live cart-element starts with the attributes a and b.
AttrNames == {"a", "b", "c"}

NoFragment ==
    [hasCartElement |-> FALSE, innerHTML |-> "", attrs |-> [n \in AttrNames |-> NULL]]

Fragments ==
    { NoFragment,
      [hasCartElement |-> TRUE, innerHTML |-> "items-1",
       attrs |-> [n \in AttrNames |-> IF n = "a" THEN NULL ELSE "new"]] }

\* The count displays of the page.
CountEls == {"c1", "c2"}

\* The pages the script may be loaded in: which elements exist.  A header
\* link lies inside the header cart control; the drawer container and the
\* live cart-element need the drawer view.
Documents ==
    { d \in [headerCart : BOOLEAN, headerLink : BOOLEAN, drawerView : BOOLEAN,
             drawer : BOOLEAN, cartElement : BOOLEAN, cartTrigger : BOOLEAN,
             quickId : VariantIds, quickButton : BOOLEAN] :
        /\ d.headerLink => d.headerCart
        /\ d.drawer => d.drawerView
        /\ d.cartElement => d.drawerView }

\* ------------------------------------------------------------------- state

VARIABLES
    doc,            \* which elements the page has (fixed for the page's life)
    page,           \* "live", or "navigated" once a submit was not cancelled
    events,         \* the number of user events handled
    lastEvent,      \* the last user event and what the interceptor did with it
    pipes,          \* the pipelines started so far, in order of their start
    serverCount,    \* the cart's item count on the server
    countAttr,      \* data-cart-count of every count display
    badge,          \* the header badge: exists, textContent, style.display,
                    \* and the number of badge nodes under the header cart
    cartEl,         \* the live cart-element: the node, innerHTML, attributes
    drawerOpen,     \* data-drawer-open of the drawer container
    bodyOverflow,   \* document.body.style.overflow
    triggerClicks,  \* activations of the explicit drawer trigger
    linkClicks,     \* activations of the header cart link
    ariaBusy,       \* aria-busy of the quick-add element
    disabled        \* disabled of the quick-add element's button

vars ==
    <<doc, page, events, lastEvent, pipes, serverCount, countAttr, badge, cartEl,
      drawerOpen, bodyOverflow, triggerClicks, linkClicks, ariaBusy, disabled>>

domVars ==
    <<countAttr, badge, cartEl, drawerOpen, bodyOverflow, triggerClicks,
      linkClicks>>

Pipes == 1..Len(pipes)

InitWith(docs) ==
    /\ doc \in docs
    /\ page = "live"
    /\ events = 0
    /\ lastEvent = [type |-> "none", form |-> NoForm, target |-> "outside",
                    prevented |-> FALSE, pipe |-> 0]
    /\ pipes = <<>>
    /\ serverCount = 0
    /\ countAttr = [e \in CountEls |-> ToString(serverCount)]
    /\ badge = [exists |-> FALSE, text |-> <<>>, display |-> "flex", nodes |-> 0]
    /\ cartEl = [node |-> "live", innerHTML |-> "items-0",
                 attrs |-> [n \in AttrNames |-> IF n = "c" THEN NULL ELSE "old"]]
    /\ drawerOpen = NULL
    /\ bodyOverflow = ""
    /\ triggerClicks = 0
    /\ linkClicks = 0
    /\ ariaBusy = NULL
    /\ disabled = FALSE

\* The pages of the page model: every combination of header, drawer and
\* trigger elements, with a quick-add element that has its id and button.
PageDocuments == { d \in Documents : d.quickId = "v1" /\ d.quickButton }

\* The page of the pipeline model: the one that has every element.
PipelineDocuments ==
    { d \in PageDocuments : /\ d.headerCart /\ d.headerLink /\ d.drawer
                            /\ d.cartElement /\ d.cartTrigger }

\* The pages of the dispatch model: they differ in the quick-add element.
DispatchDocuments ==
    { d \in Documents : d.headerCart /\ d.headerLink /\ d.drawerView /\ d.drawer
                        /\ d.cartElement /\ d.cartTrigger }

Init == InitWith(PipelineDocuments)

\* ------------------------------------------------- the event interceptor

\* Variant: the action is compared with the path instead of searched for it.
IsCartAddForm_Equals(form) == form.action = CartAddPath

\* init, the submit listener's test: form.action && form.action.includes(..).
IsCartAddForm(form) == form.action # <<>> /\ Includes(form.action, CartAddPath)

\* handleFormSubmit: formData.get('quantity') || 1.
FormQuantity(form) ==
    IF form.quantity.present /\ form.quantity.text # <<>>
    THEN TextArg(form.quantity.text)
    ELSE NumArg(1)

\* Variant: only a missing id field is refused, an empty one is sent.
HasVariant_NullOnly(form) == form.id # NULL

\* handleFormSubmit: the guard on formData.get('id').
HasVariant(form) == Truthy(form.id)

\* Variant: the inner button is not checked.
QuickAddReady_IdOnly(d) == Truthy(d.quickId)

\* handleQuickAdd: the guard on the data-id attribute and the inner button.
QuickAddReady(d) == Truthy(d.quickId) /\ d.quickButton

\* addToCart: the body of the add-item request.
RequestBody(variantId, quantity) ==
    [id |-> variantId, quantity |-> JSONNumber(ParseInt(quantity))]

\* The busy flag of the quick-add element and the disabled flag of its button.
flags == [busy |-> ariaBusy, disabled |-> disabled]

SetFlags(f) == ariaBusy' = f.busy /\ disabled' = f.disabled

\* Variant: the element is marked busy and its button is left enabled.
LoadingState_BusyOnly(f) == [busy |-> "true", disabled |-> f.disabled]

\* handleQuickAdd: the loading state set before addToCart is called.
LoadingState(f) == [busy |-> "true", disabled |-> TRUE]

\* handleQuickAdd: the flags written by the delayed callback and by the
\* failure handler.
ReEnabled(f) == [busy |-> "false", disabled |-> FALSE]

\* Variant: the cart read is sent together with the add-item request.
NewPipe_CartReadAtOnce(kind, variantId, quantity, atSend) ==
    [kind |-> kind, body |-> RequestBody(variantId, quantity), pc |-> "add",
     atSend |-> atSend, sent |-> [add |-> 1, cart |-> 1, drawer |-> 0],
     got |-> [add |-> "", cart |-> "", drawer |-> ""],
     cartN |-> 0, opens |-> 0, reenabled |-> FALSE, caught |-> <<>>,
     frag |-> NoFragment]

\* A pipeline: one call of addToCart, whose add-item request has been sent.
\* atSend is the state of the flags when fetch was called; sent counts the
\* requests issued and got holds how each one settled; cartN is the count in
\* the cart response while it is in flight; opens counts the pipeline's calls
\* of openCartDrawer; reenabled tells that the pipeline has written the
\* re-enabled flags; caught lists the catch clauses a fault of the pipeline
\* has run through, innermost first; frag is the drawer fragment received.
NewPipe(kind, variantId, quantity, atSend) ==
    [kind |-> kind, body |-> RequestBody(variantId, quantity), pc |-> "add",
     atSend |-> atSend, sent |-> [add |-> 1, cart |-> 0, drawer |-> 0],
     got |-> [add |-> "", cart |-> "", drawer |-> ""],
     cartN |-> 0, opens |-> 0, reenabled |-> FALSE, caught |-> <<>>,
     frag |-> NoFragment]

Event(type, form, target, prevented, pipe) ==
    [type |-> type, form |-> form, target |-> target, prevented |-> prevented,
     pipe |-> pipe]

\* A submit event reaches the document: init's listener, then
\* handleFormSubmit up to the fetch of addToCart.
Submit(form) ==
    /\ page = "live"
    /\ events' = events + 1
    /\ IF IsCartAddForm(form)
       THEN /\ page' = page
            /\ IF HasVariant(form)
               THEN /\ pipes' = Append(pipes,
                            NewPipe("form", form.id, FormQuantity(form), flags))
                    /\ lastEvent' = Event("submit", form, "outside", TRUE,
                                          Len(pipes) + 1)
               ELSE /\ pipes' = pipes
                    /\ lastEvent' = Event("submit", form, "outside", TRUE, 0)
       ELSE /\ page' = "navigated"
            /\ pipes' = pipes
            /\ lastEvent' = Event("submit", form, "outside", FALSE, 0)
    /\ UNCHANGED <<doc, serverCount, domVars, ariaBusy, disabled>>

\* A click reaches the document: init's listener, then handleQuickAdd up to
\* the fetch of addToCart.  A disabled button dispatches no click.
Click(target) ==
    /\ page = "live"
    /\ events' = events + 1
    /\ target = "button" => (doc.quickButton /\ ~disabled)
    /\ IF target = "outside"
       THEN /\ lastEvent' = Event("click", NoForm, target, FALSE, 0)
            /\ UNCHANGED <<pipes, ariaBusy, disabled>>
       ELSE IF QuickAddReady(doc)
       THEN /\ SetFlags(LoadingState(flags))
            /\ pipes' = Append(pipes,
                    NewPipe("quick", doc.quickId, NumArg(1), LoadingState(flags)))
            /\ lastEvent' = Event("click", NoForm, target, TRUE, Len(pipes) + 1)
       ELSE /\ lastEvent' = Event("click", NoForm, target, TRUE, 0)
            /\ UNCHANGED <<pipes, ariaBusy, disabled>>
    /\ UNCHANGED <<doc, page, serverCount, domVars>>

\* --------------------------------------------------- the count synchronizer

\* updateCartCount: data-cart-count of every count display.
UpdatedCountAttr(count) == [e \in CountEls |-> ToString(count)]

\* Variant: the badge is never hidden.
UpdatedBadge_NeverHidden(count) ==
    IF doc.headerCart
    THEN [exists |-> TRUE,
          text |-> IF count > 0 THEN ToString(count) ELSE badge.text,
          display |-> "flex",
          nodes |-> IF badge.exists THEN badge.nodes ELSE badge.nodes + 1]
    ELSE badge

\* Variant: a badge is appended at every update, without looking for one.
UpdatedBadge_AppendsAgain(count) ==
    IF doc.headerCart
    THEN [exists |-> TRUE,
          text |-> IF count > 0 THEN ToString(count) ELSE badge.text,
          display |-> IF count > 0 THEN "flex" ELSE "none",
          nodes |-> badge.nodes + 1]
    ELSE badge

\* Variant: a missing badge is created only for a count above zero.
UpdatedBadge_Lazy(count) ==
    IF doc.headerCart /\ (badge.exists \/ count > 0)
    THEN [exists |-> TRUE,
          text |-> IF count > 0 THEN ToString(count) ELSE badge.text,
          display |-> IF count > 0 THEN "flex" ELSE "none",
          nodes |-> IF badge.exists THEN badge.nodes ELSE badge.nodes + 1]
    ELSE badge

\* updateCartCount: the header badge, created and appended when the header
\* cart control has none, then shown with the count or hidden.
UpdatedBadge(count) ==
    IF doc.headerCart
    THEN [exists |-> TRUE,
          text |-> IF count > 0 THEN ToString(count) ELSE badge.text,
          display |-> IF count > 0 THEN "flex" ELSE "none",
          nodes |-> IF badge.exists THEN badge.nodes ELSE badge.nodes + 1]
    ELSE badge

updateCartCount(count) ==
    /\ countAttr' = UpdatedCountAttr(count)
    /\ badge' = UpdatedBadge(count)

\* ------------------------------------------------------ the drawer refresher

\* refreshAndOpenCartDrawer: the fetch resolved, its body parsed as JSON and
\* the section entry was read without a fault.
RefreshSucceeded(outcome) == outcome \in {"noSection", "fragment"}

\* Variant: the live cart-element is not looked for.
ShouldMerge_FragmentOnly(outcome, frag) ==
    outcome = "fragment" /\ frag.hasCartElement

\* refreshAndOpenCartDrawer: both cart-elements were found.
ShouldMerge(outcome, frag) ==
    outcome = "fragment" /\ frag.hasCartElement /\ doc.cartElement

\* Variant: the fragment's element is put in the place of the live one.
Merged_Replaced(live, frag) ==
    [node |-> "fragment", innerHTML |-> frag.innerHTML, attrs |-> frag.attrs]

\* refreshAndOpenCartDrawer: on the live node, innerHTML is replaced and
\* every attribute of the fragment's element is set.
Merged(live, frag) ==
    [node |-> live.node, innerHTML |-> frag.innerHTML,
     attrs |-> [n \in AttrNames |->
                  IF frag.attrs[n] # NULL THEN frag.attrs[n] ELSE live.attrs[n]]]

\* Variant: the drawer view is taken for the container without looking for
\* the enclosing drawer.
DrawerStrategy_ViewOnly(d) ==
    IF d.drawerView THEN "container"
    ELSE IF d.cartTrigger THEN "trigger"
    ELSE IF d.headerLink THEN "link"
    ELSE "none"

\* openCartDrawer: the first applicable of its three methods.
DrawerStrategy(d) ==
    IF d.drawerView /\ d.drawer THEN "container"
    ELSE IF d.cartTrigger THEN "trigger"
    ELSE IF d.headerLink THEN "link"
    ELSE "none"

openCartDrawer ==
    LET m == DrawerStrategy(doc)
    IN  /\ drawerOpen' = IF m = "container" THEN "true" ELSE drawerOpen
        /\ bodyOverflow' = IF m = "container" THEN "hidden" ELSE bodyOverflow
        /\ triggerClicks' = IF m = "trigger" THEN triggerClicks + 1 ELSE triggerClicks
        /\ linkClicks' = IF m = "link" THEN linkClicks + 1 ELSE linkClicks

\* ------------------------------------------------------ the mutation client

\* Variant: the body of the cart read is used even when it is not JSON.
CartReadSucceeded_AnyBody(outcome) == outcome \in {"ok", "badJson"}

\* Variant: response.ok is not looked at.
AddSucceeded_AnyStatus(outcome) == outcome \in {"ok", "notOk"}

\* addToCart: the add-item fetch resolved with response.ok and its body
\* parsed.
AddSucceeded(outcome) == outcome = "ok"

\* addToCart: the cart fetch resolved and its body parsed.
CartReadSucceeded(outcome) == outcome = "ok"

\* Variant: handleQuickAdd sets no timer.
Resolved_NoTimer(kind) == "done"

\* Where the caller stands once addToCart has resolved: handleQuickAdd waits
\* for its timer, handleFormSubmit is done.
Resolved(kind) == IF kind = "quick" THEN "timer" ELSE "done"

\* The function that called addToCart.
Caller(kind) == IF kind = "quick" THEN "handleQuickAdd" ELSE "handleFormSubmit"

\* The functions on the stack, innermost first, when a network call of the
\* pipeline faults: the drawer fragment is awaited inside
\* refreshAndOpenCartDrawer, the add-item request and the cart read inside
\* addToCart.
CallStack(call, kind) ==
    IF call = "drawer"
    THEN <<"refreshAndOpenCartDrawer", "addToCart", Caller(kind)>>
    ELSE <<"addToCart", Caller(kind)>>

\* Variant: handleFormSubmit's catch rethrows as addToCart's does.
Rethrows_FormSubmitToo(fn) == fn \in {"addToCart", "handleFormSubmit"}

\* Variant: refreshAndOpenCartDrawer's catch rethrows as addToCart's does.
Rethrows_RefreshToo(fn) == fn \in {"addToCart", "refreshAndOpenCartDrawer"}

\* Whether the catch clause of fn throws the fault again: addToCart's does,
\* those of refreshAndOpenCartDrawer, handleQuickAdd and handleFormSubmit
\* only log (and handleQuickAdd's re-enables the control).
Rethrows(fn) == fn = "addToCart"

\* The catch clauses a fault runs through, from the innermost function of
\* the stack up to the first whose catch does not rethrow.
RECURSIVE Unwind(_)
Unwind(stack) ==
    IF stack = <<>> THEN <<>>
    ELSE IF Rethrows(Head(stack)) THEN <<Head(stack)>> \o Unwind(Tail(stack))
    ELSE <<Head(stack)>>

\* Where the pipeline stands once the fault has run through those catch
\* clauses: rethrown by the outermost, it is an unhandled rejection; stopped
\* by the caller, the pipeline has failed; stopped below the caller, the
\* caller sees addToCart resolve.
AfterFault(caught, kind) ==
    LET last == caught[Len(caught)]
    IN  IF Rethrows(last) THEN "unhandled"
        ELSE IF last = Caller(kind) THEN "failed"
        ELSE Resolved(kind)

\* A network call of the pipeline faults: the fault runs through the catch
\* clauses of the stack; handleQuickAdd's catch re-enables the control at
\* once.
Fail(p, call, outcome) ==
    LET caught == Unwind(CallStack(call, pipes[p].kind))
        byQuickAdd == caught[Len(caught)] = "handleQuickAdd"
    IN  /\ pipes' = [pipes EXCEPT
                       ![p].pc = AfterFault(caught, pipes[p].kind),
                       ![p].got[call] = outcome,
                       ![p].cartN = 0,
                       ![p].caught = caught,
                       ![p].reenabled = byQuickAdd]
        /\ IF byQuickAdd
           THEN SetFlags(ReEnabled(flags))
           ELSE UNCHANGED <<ariaBusy, disabled>>

\* The add-item request settles: rejected by the network, answered with a
\* non-success status, answered with a body that is not JSON, or answered.
\* A server that answers with success has added the request's quantity to
\* the cart.  On success the cart read is sent.
AddResponse(p, outcome) ==
    /\ page = "live"
    /\ pipes[p].pc = "add"
    /\ serverCount' = IF outcome \in {"ok", "badJson"}
                      THEN serverCount + pipes[p].body.quantity.val
                      ELSE serverCount
    /\ IF AddSucceeded(outcome)
       THEN /\ pipes' = [pipes EXCEPT ![p].pc = "cart", ![p].sent.cart = 1,
                                      ![p].got.add = outcome]
            /\ UNCHANGED <<ariaBusy, disabled>>
       ELSE Fail(p, "add", outcome)
    /\ UNCHANGED <<doc, page, events, lastEvent, domVars>>

\* The server answers the cart read with the count it holds at that moment.
ServerCartRead(p) ==
    /\ page = "live"
    /\ pipes[p].pc = "cart"
    /\ pipes' = [pipes EXCEPT ![p].pc = "cartRead", ![p].cartN = serverCount]
    /\ UNCHANGED <<doc, page, events, lastEvent, serverCount, domVars, ariaBusy, disabled>>

\* The cart read settles.  On success the count is applied and the drawer
\* fragment is requested.
CartResponse(p, outcome) ==
    /\ page = "live"
    /\ \/ pipes[p].pc = "cartRead"
       \/ pipes[p].pc = "cart" /\ outcome = "rejected"
    /\ IF CartReadSucceeded(outcome)
       THEN /\ updateCartCount(pipes[p].cartN)
            /\ pipes' = [pipes EXCEPT ![p].pc = "drawer", ![p].sent.drawer = 1,
                                      ![p].got.cart = outcome, ![p].cartN = 0]
            /\ UNCHANGED <<ariaBusy, disabled>>
       ELSE /\ Fail(p, "cart", outcome)
            /\ UNCHANGED <<countAttr, badge>>
    /\ UNCHANGED <<doc, page, events, lastEvent, serverCount, cartEl, drawerOpen,
                   bodyOverflow, triggerClicks, linkClicks>>

\* The drawer-fragment request settles; refreshAndOpenCartDrawer returns and
\* addToCart resolves.  handleQuickAdd then sets its timer; handleFormSubmit
\* is done.
DrawerResponse(p, outcome, frag) ==
    /\ page = "live"
    /\ pipes[p].pc = "drawer"
    /\ IF RefreshSucceeded(outcome)
       THEN /\ cartEl' = IF ShouldMerge(outcome, frag)
                         THEN Merged(cartEl, frag) ELSE cartEl
            /\ openCartDrawer
            /\ pipes' = [pipes EXCEPT ![p].pc = Resolved(pipes[p].kind),
                                      ![p].got.drawer = outcome,
                                      ![p].frag = frag,
                                      ![p].opens = 1]
            /\ UNCHANGED <<ariaBusy, disabled>>
       ELSE /\ Fail(p, "drawer", outcome)
            /\ UNCHANGED <<cartEl, drawerOpen, bodyOverflow, triggerClicks,
                           linkClicks>>
    /\ UNCHANGED <<doc, page, events, lastEvent, serverCount, countAttr, badge>>

\* handleQuickAdd's delayed callback runs.
TimerFires(p) ==
    /\ page = "live"
    /\ pipes[p].pc = "timer"
    /\ SetFlags(ReEnabled(flags))
    /\ pipes' = [pipes EXCEPT ![p].pc = "done", ![p].reenabled = TRUE]
    /\ UNCHANGED <<doc, page, events, lastEvent, serverCount, domVars>>

\* The cart is emptied from elsewhere (another tab, the cart page).
CartEmptiedElsewhere ==
    /\ serverCount > 0
    /\ serverCount' = 0
    /\ UNCHANGED <<doc, page, events, lastEvent, pipes, domVars, ariaBusy, disabled>>

AddOutcomes == {"rejected", "notOk", "badJson", "ok"}
CartOutcomes == {"rejected", "badJson", "ok"}
DrawerOutcomes == {"rejected", "badJson", "noSection", "fragment"}

\* ---------------------------------------------------------- specifications

AnyAddResponse == \E p \in Pipes, o \in AddOutcomes : AddResponse(p, o)

AnyServerCartRead == \E p \in Pipes : ServerCartRead(p)

AnyCartResponse == \E p \in Pipes, o \in CartOutcomes : CartResponse(p, o)

AnyDrawerResponse ==
    \E p \in Pipes, o \in DrawerOutcomes :
        \E f \in IF o = "fragment" THEN Fragments ELSE {NoFragment} :
            DrawerResponse(p, o, f)

AnyTimerFires == \E p \in Pipes : TimerFires(p)

\* The events that start a pipeline or leave the page, at most n pipelines,
\* with every outcome of every network call.
PipelineNext(n) ==
    \/ Len(pipes) < n /\ \E f \in PipelineForms : Submit(f)
    \/ Len(pipes) < n /\ \E t \in PipelineClicks : Click(t)
    \/ AnyAddResponse
    \/ AnyServerCartRead
    \/ AnyCartResponse
    \/ AnyDrawerResponse
    \/ AnyTimerFires
    \/ CartEmptiedElsewhere

\* The pipeline model: overlapping pipelines on the page with every element.
Next == PipelineNext(MaxPipes)

Spec == Init /\ [][Next]_vars

\* The page model: every page.
PageInit == InitWith(PageDocuments)

PageNext == PipelineNext(MaxPagePipes)

PageSpec == PageInit /\ [][PageNext]_vars

\* The dispatch model: every form and every click; requests are sent and
\* not answered.
DispatchInit == InitWith(DispatchDocuments)

DispatchNext ==
    \/ events < MaxDispatch /\ \E f \in Forms : Submit(f)
    \/ events < MaxDispatch /\ \E t \in ClickTargets : Click(t)

DispatchSpec == DispatchInit /\ [][DispatchNext]_vars

\* The pipeline model when every network call settles and every timer fires:
\* a request in flight is eventually answered or rejected, and the event loop
\* runs a timer's callback once its delay has passed.  Its pages have the
\* header cart control, its link and a trigger, and differ in the drawer.
FairDocuments ==
    { d \in PageDocuments : d.headerCart /\ d.headerLink /\ d.cartTrigger }

FairInit == InitWith(FairDocuments)

FairNext == PipelineNext(MaxFairPipes)

Fairness ==
    /\ WF_vars(AnyAddResponse)
    /\ WF_vars(AnyServerCartRead)
    /\ WF_vars(AnyCartResponse)
    /\ WF_vars(AnyDrawerResponse)
    /\ WF_vars(AnyTimerFires)

FairSpec == FairInit /\ [][FairNext]_vars /\ Fairness

\* ------------------------------------------------------------------ claims

\* The last event is a submit of a form whose action contains the cart-add
\* path.
CartAddSubmitted ==
    /\ lastEvent.type = "submit"
    /\ Includes(lastEvent.form.action, CartAddPath)

\* A quantity text that is a plain positive numeral, and its value.
PlainNumeral(t) ==
    /\ t # <<>>
    /\ \A i \in 1..Len(t) : IsDigit(t[i])
    /\ t[1] # "0"

\* The last event was cancelled and started exactly one pipeline, the newest,
\* whose single add-item request carries the form's id and, when the form's
\* quantity is a plain positive numeral, that number.
OneRequestForLastSubmit ==
    /\ lastEvent.prevented
    /\ page = "live"
    /\ lastEvent.pipe = Len(pipes)
    /\ lastEvent.pipe >= 1
    /\ LET r == pipes[lastEvent.pipe]
           q == lastEvent.form.quantity
       IN  /\ r.kind = "form"
           /\ r.sent.add = 1
           /\ r.body.id = lastEvent.form.id
           /\ (q.present /\ PlainNumeral(q.text)) =>
                  (~r.body.quantity.null /\
                   r.body.quantity.val = DigitsValue(q.text, 0))

C2_QuantityAtLeastOne ==
    /\ \A p \in Pipes :
          ~pipes[p].body.quantity.null /\ pipes[p].body.quantity.val >= 1
    /\ (CartAddSubmitted /\ lastEvent.pipe >= 1) =>
          LET q == lastEvent.form.quantity
              sent == pipes[lastEvent.pipe].body.quantity
          IN  /\ (~q.present \/ \A i \in 1..Len(q.text) : ~IsDigit(q.text[i]))
                    => sent = [null |-> FALSE, val |-> 1]
              /\ (q.present /\ PlainNumeral(q.text))
                    => sent = [null |-> FALSE, val |-> DigitsValue(q.text, 0)]

\* C3: a submit of a cart-add form without an id field is cancelled and
\* issues no request, and no add-item request was ever sent without a
\* variant identifier.
C3_NoRequestWithoutId ==
    /\ [][(/\ events' = events + 1
           /\ lastEvent'.type = "submit"
           /\ Includes(lastEvent'.form.action, CartAddPath)
           /\ lastEvent'.form.id = NULL)
          => (/\ pipes' = pipes
              /\ lastEvent'.prevented
              /\ page' = "live")]_vars
    /\ [](\A p \in Pipes : pipes[p].sent.add >= 1 => Truthy(pipes[p].body.id))

\* C3's case: a cart-add form without id was submitted; the page is still
\* live and nothing was sent.
C3_Witness ==
    /\ CartAddSubmitted
    /\ lastEvent.form.id = NULL
    /\ lastEvent.prevented
    /\ page = "live"
    /\ pipes = <<>>

\* C4: a click on a quick-add element that lacks its variant-id attribute or
\* its inner button issues no request and leaves the busy flag and the
\* button's disabled flag as they were.
C4_QuickAddNoOp ==
    [][(/\ events' = events + 1
        /\ lastEvent'.type = "click"
        /\ lastEvent'.target # "outside"
        /\ (doc.quickId = NULL \/ ~doc.quickButton))
       => (/\ pipes' = pipes
           /\ ariaBusy' = ariaBusy
           /\ disabled' = disabled)]_vars

\* C4's case: the quick-add element has an id and no button, it was clicked,
\* and nothing was sent.
C4_Witness ==
    /\ lastEvent.type = "click"
    /\ lastEvent.target = "element"
    /\ doc.quickId = "v1"
    /\ ~doc.quickButton
    /\ pipes = <<>>
    /\ ariaBusy = NULL
    /\ ~disabled

\* The badge is in the tree, visible, and its text is n.
BadgeShows(b, n) == b.exists /\ b.display # "none" /\ b.text = ToString(n)

\* The step in which pipeline p receives its cart read and applies the count.
CountApplied(p) == pipes[p].pc = "cartRead" /\ pipes'[p].pc = "drawer"

\* C5 as stated: when a cart read that follows a successful mutation returns
\* N, the step that applies it leaves every count display at N and the badge
\* visible with text N if and only if N > 0.
C5_BadgeOnEveryPage ==
    [][\A p \in Pipes : CountApplied(p) =>
          LET N == pipes[p].cartN
          IN  /\ \A e \in CountEls : countAttr'[e] = ToString(N)
              /\ BadgeShows(badge', N) <=> N > 0]_vars

\* C5, amended: after a successful mutation whose cart read returns N, every
\* count display's attribute equals N, and, on a page that has a header cart
\* control, the badge is visible with text N if and only if N > 0 (for
\* N = 0 it is hidden).
C5_BadgeWithHeaderCart ==
    [][\A p \in Pipes : CountApplied(p) =>
          LET N == pipes[p].cartN
          IN  /\ \A e \in CountEls : countAttr'[e] = ToString(N)
              /\ doc.headerCart =>
                    /\ BadgeShows(badge', N) <=> N > 0
                    /\ N = 0 => (badge'.exists /\ badge'.display = "none")]_vars

\* C5's case: a count of 1 has just been applied and the badge shows it.
C5_Witness ==
    /\ \E p \in Pipes : pipes[p].pc = "drawer"
    /\ doc.headerCart
    /\ \A e \in CountEls : countAttr[e] = <<"1">>
    /\ badge = [exists |-> TRUE, text |-> <<"1">>, display |-> "flex", nodes |-> 1]

\* C6: when the add-item request returns a non-success status, the step
\* leaves the count displays, the badge and the drawer as they were and sends
\* nothing; that pipeline never reads the cart, never requests the drawer
\* fragment and never opens the drawer.
C6_FailedStatusChangesNothing ==
    /\ [][\A p \in Pipes :
            (pipes[p].got.add = "" /\ pipes'[p].got.add = "notOk") =>
                /\ UNCHANGED <<countAttr, badge, cartEl, drawerOpen,
                               bodyOverflow, triggerClicks, linkClicks>>
                /\ pipes'[p].sent = pipes[p].sent]_vars
    /\ [](\A p \in Pipes : pipes[p].got.add = "notOk" =>
            /\ pipes[p].sent = [add |-> 1, cart |-> 0, drawer |-> 0]
            /\ pipes[p].opens = 0)

\* C6's case: a pipeline whose add-item request got a non-success status.
C6_Witness ==
    \E p \in Pipes : pipes[p].got.add = "notOk" /\ pipes[p].pc = "failed"

\* C7: whenever refreshAndOpenCartDrawer was invoked and has returned, it
\* called openCartDrawer, however the refresh went.
C7_AlwaysOpens ==
    \A p \in Pipes :
        (pipes[p].sent.drawer = 1 /\ pipes[p].got.drawer # "") =>
            pipes[p].opens = 1

\* C8: openCartDrawer applies the first applicable strategy and only that
\* one: the drawer container of the drawer view, else the explicit trigger,
\* else the header cart link; with none of them nothing changes and the
\* pipeline goes on.
C8_FirstApplicableStrategy ==
    [][\A p \in Pipes :
          (pipes[p].opens = 0 /\ pipes'[p].opens = 1) =>
              IF doc.drawerView /\ doc.drawer
              THEN /\ drawerOpen' = "true"
                   /\ bodyOverflow' = "hidden"
                   /\ UNCHANGED <<triggerClicks, linkClicks>>
              ELSE IF doc.cartTrigger
              THEN /\ triggerClicks' = triggerClicks + 1
                   /\ UNCHANGED <<drawerOpen, bodyOverflow, linkClicks>>
              ELSE IF doc.headerLink
              THEN /\ linkClicks' = linkClicks + 1
                   /\ UNCHANGED <<drawerOpen, bodyOverflow, triggerClicks>>
              ELSE /\ UNCHANGED <<drawerOpen, bodyOverflow, triggerClicks,
                                  linkClicks>>
                   /\ pipes'[p].pc \in {"timer", "done"}]_vars

\* C8's case: a drawer view without enclosing drawer and no trigger; the
\* header link was activated and nothing else.
C8_Witness ==
    /\ doc.drawerView /\ ~doc.drawer /\ ~doc.cartTrigger /\ doc.headerLink
    /\ \E p \in Pipes : pipes[p].opens = 1
    /\ linkClicks = 1
    /\ triggerClicks = 0
    /\ drawerOpen = NULL
    /\ bodyOverflow = ""

\* Pipeline p waits for a network call.
InFlight(p) == pipes[p].pc \in {"add", "cart", "cartRead", "drawer"}

\* Pipeline p is the only quick-add pipeline of the run.
OnlyQuickPipe(p) ==
    /\ pipes[p].kind = "quick"
    /\ \A q \in Pipes : pipes[q].kind = "quick" => q = p

\* C9: in a run with a single quick-add pipeline, the control is busy and
\* its button disabled when the add-item request is sent; they stay so while
\* the calls are in flight and, after success, until the timer fires; they
\* are reverted once the timer has fired, and as soon as addToCart has
\* failed.
C9_BusyUntilTimerOrFailure ==
    \A p \in Pipes : OnlyQuickPipe(p) =>
        /\ pipes[p].atSend = [busy |-> "true", disabled |-> TRUE]
        /\ (InFlight(p) \/ pipes[p].pc = "timer") =>
              (ariaBusy = "true" /\ disabled)
        /\ pipes[p].pc \in {"failed", "done"} =>
              (ariaBusy = "false" /\ ~disabled)

\* C9's case: addToCart has succeeded, the timer has not fired, and the
\* control is still busy.
C9_Witness ==
    \E p \in Pipes :
        /\ OnlyQuickPipe(p)
        /\ pipes[p].pc = "timer"
        /\ ariaBusy = "true"
        /\ disabled

\* C10: when every network call settles and the timer fires, a control
\* marked busy is eventually re-enabled (unless the page is left); and a
\* pipeline re-enables the control only once addToCart has settled, so one
\* whose network call never completes never re-enables it.
C10_EventuallyReEnabled ==
    /\ (ariaBusy = "true") ~>
          (page = "navigated" \/ (ariaBusy = "false" /\ ~disabled))
    /\ [](\A p \in Pipes : (InFlight(p) \/ pipes[p].pc = "timer") =>
            ~pipes[p].reenabled)

\* C10's case: a quick-add pipeline that succeeded and whose timer fired.
C10_Witness ==
    \E p \in Pipes :
        /\ pipes[p].kind = "quick"
        /\ pipes[p].pc = "done"
        /\ pipes[p].reenabled
        /\ ariaBusy = "false"
        /\ ~disabled

\* C11: every failure inside addToCart (the add-item request rejected,
\* answered with a non-success status or with a body that is not JSON, the
\* cart read rejected or not JSON) is rethrown by addToCart's catch and
\* caught by the caller's, handleQuickAdd or handleFormSubmit: the pipeline
\* has failed and no pipeline ends in an unhandled fault.
C11_FaultsCaughtByCaller ==
    \A p \in Pipes :
        /\ pipes[p].pc # "unhandled"
        /\ (\/ pipes[p].got.add \in {"rejected", "notOk", "badJson"}
            \/ pipes[p].got.cart \in {"rejected", "badJson"}) =>
              /\ pipes[p].pc = "failed"
              /\ pipes[p].caught =
                    <<"addToCart", IF pipes[p].kind = "quick"
                                   THEN "handleQuickAdd" ELSE "handleFormSubmit">>

\* C11's case: a form pipeline whose mutation succeeded and whose cart read
\* could not be parsed; handleFormSubmit caught the fault.
C11_Witness ==
    \E p \in Pipes :
        /\ pipes[p].kind = "form"
        /\ pipes[p].got.add = "ok"
        /\ pipes[p].got.cart = "badJson"
        /\ pipes[p].pc = "failed"
        /\ pipes[p].caught = <<"addToCart", "handleFormSubmit">>

\* C12: a failure of the drawer refresh (the fragment request rejected or
\* its body not JSON) stops at refreshAndOpenCartDrawer's catch: in that
\* step addToCart resolves, the count displays and the badge keep the count
\* applied before, and handleQuickAdd goes to its timer with the control
\* still busy; such a pipeline never counts as failed.
C12_RefreshFaultAbsorbed ==
    /\ [][\A p \in Pipes :
            (pipes[p].got.drawer = "" /\
             pipes'[p].got.drawer \in {"rejected", "badJson"}) =>
                /\ pipes'[p].pc =
                      IF pipes[p].kind = "quick" THEN "timer" ELSE "done"
                /\ pipes'[p].caught = <<"refreshAndOpenCartDrawer">>
                /\ ~pipes'[p].reenabled
                /\ UNCHANGED <<countAttr, badge, ariaBusy, disabled>>]_vars
    /\ [](\A p \in Pipes :
            pipes[p].got.drawer \in {"rejected", "badJson"} =>
                pipes[p].pc \in {"timer", "done"})

\* C12's case: a quick-add pipeline whose drawer request was rejected waits
\* for its timer, the control busy and the count of 1 still displayed.
C12_Witness ==
    \E p \in Pipes :
        /\ pipes[p].kind = "quick"
        /\ pipes[p].got.drawer = "rejected"
        /\ pipes[p].pc = "timer"
        /\ ariaBusy = "true"
        /\ disabled
        /\ \A e \in CountEls : countAttr[e] = <<"1">>

\* A network call that settled as a failure.
Failed(outcome) == outcome \in {"rejected", "notOk", "badJson"}

\* C13: every pipeline belongs to one interaction of its own and has sent
\* exactly one add-item request, at most one cart read and at most one
\* fragment request; once a call of it has failed, the calls that follow it
\* in addToCart are never sent.
C13_NoRetry ==
    /\ Len(pipes) <= events
    /\ \A p \in Pipes :
          /\ pipes[p].sent.add = 1
          /\ pipes[p].sent.cart <= 1
          /\ pipes[p].sent.drawer <= 1
          /\ Failed(pipes[p].got.add) =>
                (pipes[p].sent.cart = 0 /\ pipes[p].sent.drawer = 0)
          /\ Failed(pipes[p].got.cart) => pipes[p].sent.drawer = 0
          /\ pipes[p].pc = "failed" =>
                (pipes[p].sent.drawer = 0 /\ pipes[p].opens = 0)

\* C13's case: two interactions, one whose cart read was rejected after its
\* single add-item request, while the other has gone through.
C13_Witness ==
    /\ events = 2
    /\ \E p, q \in Pipes :
          /\ pipes[p].got.cart = "rejected"
          /\ pipes[p].sent = [add |-> 1, cart |-> 1, drawer |-> 0]
          /\ pipes[p].pc = "failed"
          /\ pipes[q].sent = [add |-> 1, cart |-> 1, drawer |-> 1]
          /\ pipes[q].pc = "done"

\* C14: the header cart control never holds more than one badge, and a
\* badge once there stays: no step removes it or appends another; a count
\* of 0 hides it and keeps its text, a count above 0 shows that node again.
C14_OneBadgeKept ==
    /\ [](badge.nodes <= 1 /\ (badge.exists <=> badge.nodes = 1))
    /\ [][badge.exists =>
            /\ badge'.exists
            /\ badge'.nodes = badge.nodes
            /\ \A p \in Pipes : CountApplied(p) =>
                  badge' = IF pipes[p].cartN > 0
                           THEN [exists |-> TRUE, nodes |-> 1, display |-> "flex",
                                 text |-> ToString(pipes[p].cartN)]
                           ELSE [exists |-> TRUE, nodes |-> 1, display |-> "none",
                                 text |-> badge.text]]_vars

\* C14's case: two pipelines have applied their counts; the one badge,
\* shown with 1 by one of them, was hidden by the other and keeps its text.
C14_Witness ==
    /\ badge = [exists |-> TRUE, nodes |-> 1, display |-> "none", text |-> <<"1">>]
    /\ Len(pipes) = 2
    /\ \A p \in Pipes : pipes[p].got.cart = "ok"

\* C15 as stated: a count update with count 0, on a page with a header cart
\* control and no badge, creates no badge.
C15_NoBadgeForZero ==
    [][\A p \in Pipes :
          (CountApplied(p) /\ doc.headerCart /\ ~badge.exists /\
           pipes[p].cartN = 0) => ~badge'.exists]_vars

\* C15, amended: the badge is created on the first count update of a page
\* that has a header cart control, whatever the count: with count 0 it is
\* created hidden and empty, with a count above 0 it is created visible with
\* the count.
C15_BadgeCreatedOnFirstUpdate ==
    [][\A p \in Pipes :
          (CountApplied(p) /\ doc.headerCart /\ ~badge.exists) =>
              badge' = IF pipes[p].cartN > 0
                       THEN [exists |-> TRUE, nodes |-> 1, display |-> "flex",
                             text |-> ToString(pipes[p].cartN)]
                       ELSE [exists |-> TRUE, nodes |-> 1, display |-> "none",
                             text |-> <<>>]]_vars

\* C15's case: the first count applied was 0 and the badge is there, hidden
\* and empty.
C15_Witness ==
    /\ doc.headerCart
    /\ \E p \in Pipes : pipes[p].got.cart = "ok"
    /\ \A e \in CountEls : countAttr[e] = <<"0">>
    /\ badge = [exists |-> TRUE, nodes |-> 1, display |-> "none", text |-> <<>>]

\* C16: the steps of a pipeline come in order.  The cart read is sent only
\* once the add-item response is there, the fragment request only once the
\* cart response is there, and the drawer is opened only on a fragment
\* response; the count displays and the badge change only in the step that
\* receives a cart response, and that step, having applied the count, sends
\* the fragment request; the step that opens the drawer finds the fragment
\* request already sent.
C16_StepsInOrder ==
    /\ [](\A p \in Pipes :
            /\ pipes[p].sent.cart = 1 => pipes[p].got.add = "ok"
            /\ pipes[p].sent.drawer = 1 => pipes[p].got.cart = "ok"
            /\ pipes[p].opens = 1 =>
                  pipes[p].got.drawer \in {"noSection", "fragment"})
    /\ [][(countAttr' # countAttr \/ badge' # badge) =>
            \E p \in Pipes :
                /\ pipes[p].got.add = "ok"
                /\ pipes[p].sent.cart = 1
                /\ pipes[p].got.cart = "" /\ pipes'[p].got.cart = "ok"]_vars
    /\ [][\A p \in Pipes :
            (pipes[p].sent.drawer = 0 /\ pipes'[p].sent.drawer = 1) =>
                /\ pipes[p].got.cart = "" /\ pipes'[p].got.cart = "ok"
                /\ \A e \in CountEls : countAttr'[e] = ToString(pipes[p].cartN)]_vars
    /\ [][\A p \in Pipes :
            (pipes[p].opens = 0 /\ pipes'[p].opens = 1) =>
                /\ pipes[p].sent.drawer = 1
                /\ pipes[p].got.drawer = ""]_vars

\* C16's case: a pipeline that went through every step and opened the
\* drawer container.
C16_Witness ==
    \E p \in Pipes :
        /\ pipes[p].got = [add |-> "ok", cart |-> "ok", drawer |-> "fragment"]
        /\ pipes[p].sent = [add |-> 1, cart |-> 1, drawer |-> 1]
        /\ pipes[p].opens = 1
        /\ \A e \in CountEls : countAttr[e] = <<"1">>
        /\ drawerOpen = "true"

\* C17: when the fragment response has no cart-drawer entry, or its
\* fragment has no cart-element, or the page has no live cart-element, the
\* step leaves the live cart-element's content and attributes as they were
\* and calls openCartDrawer, which opens the drawer container when the page
\* has one.
C17_MergeSkippedDrawerOpened ==
    [][\A p \in Pipes :
          (/\ pipes[p].got.drawer = ""
           /\ pipes'[p].got.drawer \in {"noSection", "fragment"}
           /\ \/ pipes'[p].got.drawer = "noSection"
              \/ ~pipes'[p].frag.hasCartElement
              \/ ~doc.cartElement) =>
              /\ cartEl' = cartEl
              /\ pipes'[p].opens = 1
              /\ (doc.drawerView /\ doc.drawer) =>
                    (drawerOpen' = "true" /\ bodyOverflow' = "hidden")]_vars

\* C17's case: the page has a live cart-element, the fragment had none; the
\* live element is as it was at the start and the drawer is open.
C17_Witness ==
    /\ doc.cartElement
    /\ \E p \in Pipes :
          /\ pipes[p].got.drawer = "fragment"
          /\ ~pipes[p].frag.hasCartElement
          /\ pipes[p].opens = 1
    /\ cartEl.innerHTML = "items-0"
    /\ cartEl.attrs = [n \in AttrNames |-> IF n = "c" THEN NULL ELSE "old"]
    /\ drawerOpen = "true"

\* C18: when both cart-elements are there, the merge acts on the live node:
\* its inner content becomes the fragment's, every attribute of the
\* fragment's element is on it with the fragment's value, and every
\* attribute the fragment's element lacks is as it was.
C18_MergeAdditive ==
    [][\A p \in Pipes :
          (/\ pipes[p].got.drawer = ""
           /\ pipes'[p].got.drawer = "fragment"
           /\ pipes'[p].frag.hasCartElement
           /\ doc.cartElement) =>
              LET f == pipes'[p].frag
              IN  /\ cartEl'.node = cartEl.node
                  /\ cartEl'.innerHTML = f.innerHTML
                  /\ \A n \in AttrNames :
                        cartEl'.attrs[n] = IF f.attrs[n] # NULL
                                           THEN f.attrs[n]
                                           ELSE cartEl.attrs[n]]_vars

\* C18's case: the live element has the fragment's content, its attribute
\* b overwritten, c added, and a, which the fragment lacks, kept.
C18_Witness ==
    /\ doc.cartElement
    /\ \E p \in Pipes : pipes[p].got.drawer = "fragment" /\ pipes[p].frag.hasCartElement
    /\ cartEl = [node |-> "live", innerHTML |-> "items-1",
                 attrs |-> [n \in AttrNames |-> IF n = "a" THEN "old" ELSE "new"]]

\* C19: in every state, when a quick-add pipeline is in flight, the
\* quick-add element is marked busy and its button is disabled.
C19_BusyWhileInFlight ==
    (\E p \in Pipes : pipes[p].kind = "quick" /\ InFlight(p)) =>
        (ariaBusy = "true" /\ disabled)

\* The quantity the server has accepted from the first n pipelines.
RECURSIVE AcceptedQuantity(_)
AcceptedQuantity(n) ==
    IF n = 0 THEN 0
    ELSE AcceptedQuantity(n - 1) +
         (IF pipes[n].got.add \in {"ok", "badJson"}
          THEN pipes[n].body.quantity.val ELSE 0)

\* C20: once several pipelines have all completed successfully, and the
\* cart holds what their mutations added, every count display and the badge
\* show the count the cart holds.
C20_FinalCountShown ==
    (/\ Len(pipes) >= 2
     /\ \A p \in Pipes :
           /\ pipes[p].got.add = "ok"
           /\ pipes[p].got.cart = "ok"
           /\ pipes[p].got.drawer \in {"noSection", "fragment"}
     /\ serverCount = AcceptedQuantity(Len(pipes))) =>
        /\ \A e \in CountEls : countAttr[e] = ToString(serverCount)
        /\ BadgeShows(badge, serverCount)

====
